---- MODULE Spec2Model ----
(***************************************************************************)
(* Resource lifetime of minigl: HLContext (gc_mode, gc(), the pending      *)
(* deque, ContextStats) and HLFramebuffer (construction, __del__, the      *)
(* weakref finalizer, delete(), delete_glo(), use(), read()).              *)
(*                                                                         *)
(* Framebuffers are numbered 1..MaxRes in order of glGenFramebuffers; the  *)
(* native handle of framebuffer r is r, and 0 is the zeroed GLuint.        *)
(* Id 0 as a framebuffer reference is the default (window) framebuffer,    *)
(* which is exempt from finalisation and from the pending deque.           *)
(*                                                                         *)
(* Object lifetime follows CPython reference counting: an object is        *)
(* finalised at the moment its last reference goes away (__del__ first,    *)
(* once; if that did not resurrect it, the weakref.finalize callback, then *)
(* its own references are released).  Objects kept alive only by a         *)
(* reference cycle (through _prev_fbo) stay alive until CPython's cyclic   *)
(* collector runs, which it does at a moment of its own choosing.  The     *)
(* collector is generational: a run examines generation k and the younger  *)
(* ones, and what survives it moves to the next older generation.         *)
(***************************************************************************)
EXTENDS Integers, Sequences, FiniteSets, TLC

\* ---------------------------------------------------------------- bounds
MaxRes == 2
MaxNullDeletes == 1
MaxScopes == 2
MaxActivations == 2
MaxWith == 2

Res == 1..MaxRes
Ref == 0..MaxRes

\* ctx.active_framebuffer does not exist: HLContext.__init__ does not assign it.
Unset == -1

\* ----------------------------------------------------- program constants
Modes == {"auto", "context_gc"}
ModeInputs == {"auto", "context_gc", "deferred"}
Outcomes == {"ok", "no_color", "size_mismatch", "incomplete"}
\* The capabilities enable_only() synchronises, and one it does not.
Known == {"BLEND", "DEPTH_TEST", "CULL_FACE", "PROGRAM_POINT_SIZE"}
Flags == Known \cup {"SCISSOR_TEST"}

VARIABLES
    gc_mode,             \* HLContext._gc_mode
    objects,             \* HLContext.objects, the pending deque
    stats,               \* ContextStats.framebuffer = <<created, freed>>
    current_context,     \* gl.current_context is not None
    active_framebuffer,  \* ctx.active_framebuffer (0 = default framebuffer,
                         \* Unset = the attribute does not exist)
    glo,                 \* HLFramebuffer._glo.value per framebuffer
    life,                \* "none" | "alive" | "failed" (__init__ raised, object still
                         \* exists) | "dead" (destroyed) | "aborted" (destroyed
                         \* after __init__ raised)
    held,                \* the caller still holds a reference; for a framebuffer
                         \* whose __init__ raised: the exception being handled
                         \* (its traceback) does
    finalizer,           \* a weakref.finalize is registered and not yet run
    prev_fbo,            \* HLFramebuffer._prev_fbo (0 = None / default)
    generation,          \* the collector generation the framebuffer object is in
    glDeleteCalls,       \* number of glDeleteFramebuffers calls per handle value
    returned,            \* value returned by the last call when it was gc(), else 0
    raised,              \* exception raised by the last call
    last,                \* the last call: [op, res, val]
    flags,               \* HLContext._flags
    glEnabled,           \* capabilities enabled on the device (glEnable / glDisable)
    scopes,              \* open "with ctx.enabled(..)" / "with ctx.enabled_only(..)"
                         \* blocks, innermost last
    glCapCalls,          \* glEnable / glDisable calls issued by the last call
    args,                \* the flags passed to the last call
    point_size,          \* HLContext._point_size
    glPointSize,         \* value last passed to glPointSize (0 = never called)
    activations,         \* open "with fbo.activate()" blocks, innermost last:
                         \* [fb |-> self, prev |-> the local prev_fbo]
    glGenCalls,          \* handles glGenFramebuffers handed out during the last call
    glBindCalls,         \* handles passed to glBindFramebuffer during the last call
    withs                \* open "with fbo:" blocks, innermost last: [fb |-> fbo,
                         \* entry |-> the framebuffer active when the block was
                         \* entered, reentered |-> fbo.__enter__ ran again since]

vars == <<gc_mode, objects, stats, current_context, active_framebuffer, glo,
          life, held, finalizer, prev_fbo, generation, glDeleteCalls, returned,
          raised, last,
          flags, glEnabled, scopes, glCapCalls, args, point_size, glPointSize,
          activations, glGenCalls, glBindCalls, withs>>

\* A call that touches neither the capability flags nor the point size.
NoStateCall ==
    /\ glCapCalls' = {}
    /\ args' = {}
    /\ UNCHANGED <<flags, glEnabled, scopes, point_size, glPointSize>>

Range(q) == {q[i] : i \in 1..Len(q)}

\* The part of the state that calls into the lifetime code read and write.
Cur ==
    [objects |-> objects, stats |-> stats, active |-> active_framebuffer,
     glo |-> glo, life |-> life, held |-> held, finalizer |-> finalizer,
     prev |-> prev_fbo, gen |-> generation, calls |-> glDeleteCalls,
     act |-> activations, gens |-> <<>>, binds |-> <<>>, withs |-> withs]

Install(s) ==
    /\ objects' = s.objects
    /\ stats' = s.stats
    /\ active_framebuffer' = s.active
    /\ glo' = s.glo
    /\ life' = s.life
    /\ held' = s.held
    /\ finalizer' = s.finalizer
    /\ prev_fbo' = s.prev
    /\ generation' = s.gen
    /\ glDeleteCalls' = s.calls
    /\ activations' = s.act
    /\ glGenCalls' = s.gens
    /\ glBindCalls' = s.binds
    /\ withs' = s.withs

\* A call that issues no glGenFramebuffers / glBindFramebuffer, enters or
\* leaves no activate() block and creates or destroys no framebuffer.
NoBindCall ==
    /\ glGenCalls' = <<>>
    /\ glBindCalls' = <<>>
    /\ UNCHANGED <<activations, withs, generation>>

Call(op, r, v) == [op |-> op, res |-> r, val |-> v]

\* ContextStats.incr / decr on the framebuffer entry
incr(s) == [s EXCEPT !.stats = <<@[1] + 1, @[2]>>]
decr(s) == [s EXCEPT !.stats = <<@[1], @[2] + 1>>]

\* delete_glo without the "gl.current_context is None" early return.
delete_glo_unguarded(s, h) ==
    decr([s EXCEPT !.calls[h] = @ + 1])

\* HLFramebuffer.delete_glo(ctx, framebuffer_id)
delete_glo(s, h) ==
    IF ~current_context
    THEN s
    ELSE decr([s EXCEPT !.calls[h] = @ + 1])

\* HLFramebuffer.delete()
delete(s, r) ==
    [delete_glo(s, s.glo[r]) EXCEPT !.glo[r] = 0]

\* Some reference to framebuffer r exists.
Referenced(s, r) ==
    \/ s.held[r]
    \/ s.active = r
    \/ \E i \in 1..Len(s.objects) : s.objects[i] = r
    \/ \E q \in Res : s.life[q] \in {"alive", "failed"} /\ s.prev[q] = r
    \/ \E i \in 1..Len(s.act) : s.act[i].fb = r \/ s.act[i].prev = r
    \/ \E i \in 1..Len(s.withs) : s.withs[i].fb = r

RECURSIVE Release(_, _), Dealloc(_, _)

\* HLFramebuffer.__del__ run on r when a reference to r has just gone away
\* and none is left.  CPython takes the object off the collector's lists
\* before it destroys it and puts it back for the call of __del__: an
\* object __del__ has queued is in the youngest generation again.
Release(s, r) ==
    IF r \notin Res \/ s.life[r] \notin {"alive", "failed"} \/ Referenced(s, r)
    THEN s
    ELSE IF gc_mode = "context_gc" /\ s.glo[r] > 0
         THEN [s EXCEPT !.objects = Append(@, r), !.gen[r] = 0]
         ELSE Dealloc(s, r)

\* r is destroyed: the weakref.finalize callback registered in __init__
\* runs delete_glo(ctx, fbo_id) on the shared GLuint, then r's own
\* reference (_prev_fbo) is released.
Dealloc(s, r) ==
    LET s1 == IF s.finalizer[r] THEN delete_glo(s, s.glo[r]) ELSE s
        s2 == [s1 EXCEPT !.finalizer[r] = FALSE, !.prev[r] = 0, !.gen[r] = 0,
                         !.life[r] = IF @ = "failed" THEN "aborted" ELSE "dead"]
    IN Release(s2, s.prev[r])

Init ==
    /\ gc_mode \in Modes
    /\ objects = <<>>
    /\ stats = <<0, 0>>
    /\ current_context = TRUE
    /\ active_framebuffer = Unset
    /\ glo = [r \in Res |-> 0]
    /\ life = [r \in Res |-> "none"]
    /\ held = [r \in Res |-> FALSE]
    /\ finalizer = [r \in Res |-> FALSE]
    /\ prev_fbo = [r \in Res |-> 0]
    /\ generation = [r \in Res |-> 0]
    /\ glDeleteCalls = [h \in Ref |-> 0]
    /\ returned = 0
    /\ raised = "none"
    /\ last = Call("init", 0, "")
    /\ flags = {}
    /\ glEnabled = {"SCISSOR_TEST"}
    /\ scopes = <<>>
    /\ glCapCalls = {}
    /\ args = {}
    /\ point_size = 1
    /\ glPointSize = 0
    /\ activations = <<>>
    /\ glGenCalls = <<>>
    /\ glBindCalls = <<>>
    /\ withs = <<>>

\* The lowest framebuffer number not yet handed out.
FreeSlots == {r \in Res : life[r] = "none"}
NextSlot == CHOOSE r \in FreeSlots : \A q \in FreeSlots : r <= q

\* __init__ testing for color attachments only after glGenFramebuffers.
construct_gen_first(s, r, outcome) ==
    IF outcome = "ok"
    THEN incr([s EXCEPT !.glo[r] = r, !.life[r] = "alive", !.held[r] = TRUE,
                        !.prev[r] = 0, !.gen[r] = 0,
                        !.gens = Append(@, r), !.binds = Append(@, r),
                        !.finalizer[r] = (gc_mode = "auto")])
    ELSE [s EXCEPT !.gens = Append(@, r), !.binds = Append(@, r),
                   !.glo[r] = r, !.life[r] = "failed", !.held[r] = TRUE,
                   !.prev[r] = 0, !.gen[r] = 0]

\* HLFramebuffer.__init__ up to the point it returns or raises.
\*   no_color       raises before glGenFramebuffers (handle stays 0)
\*   size_mismatch  raises in _detect_size, after glGenFramebuffers
\*   incomplete     raises in _check_completeness, after glGenFramebuffers
\* When __init__ raised the half-built object stays alive, referred to by
\* the traceback of the exception, until the caller is done with the
\* exception.  Without a handle (no_color) its __del__ and its destruction
\* change nothing whenever they happen, and the object is not tracked.
construct(s, r, outcome) ==
    IF outcome = "ok"
    THEN incr([s EXCEPT !.glo[r] = r, !.life[r] = "alive", !.held[r] = TRUE,
                        !.prev[r] = 0, !.gen[r] = 0,
                        !.gens = Append(@, r), !.binds = Append(@, r),
                        !.finalizer[r] = (gc_mode = "auto")])
    ELSE IF outcome = "no_color"
         THEN s
         ELSE [s EXCEPT !.gens = Append(@, r), !.binds = Append(@, r),
                        !.glo[r] = r, !.life[r] = "failed", !.held[r] = TRUE,
                        !.prev[r] = 0, !.gen[r] = 0]

Create(outcome) ==
    /\ current_context
    /\ FreeSlots # {}
    /\ Install(construct(Cur, NextSlot, outcome))
    /\ raised' = IF outcome = "ok" THEN "none" ELSE "ValueError"
    /\ returned' = 0
    /\ last' = Call("create", NextSlot, outcome)
    /\ NoStateCall
    /\ UNCHANGED <<gc_mode, current_context>>

\* The caller is done with the exception a failed construction raised (the
\* except clause ends): the traceback's reference to the half-built
\* framebuffer goes and the framebuffer is finalised.
Handled(r) ==
    /\ held[r]
    /\ life[r] = "failed"
    /\ Install(Release([Cur EXCEPT !.held[r] = FALSE], r))
    /\ raised' = "none"
    /\ returned' = 0
    /\ last' = Call("handled", r, "")
    /\ NoStateCall
    /\ UNCHANGED <<gc_mode, current_context>>

\* The caller drops its reference to r; r is finalised at once unless
\* something else still refers to it.
Unreachable(r) ==
    /\ held[r]
    /\ life[r] = "alive"
    /\ Install(Release([Cur EXCEPT !.held[r] = FALSE], r))
    /\ raised' = "none"
    /\ returned' = 0
    /\ last' = Call("unreachable", r, "")
    /\ NoStateCall
    /\ UNCHANGED <<gc_mode, current_context>>

\* The setter storing the value before it validates it.
SetGcModeStoreFirst(value) ==
    /\ gc_mode' = value
    /\ raised' = IF value \notin Modes THEN "ValueError" ELSE "none"
    /\ returned' = 0
    /\ last' = Call("gc_mode", 0, value)
    /\ NoStateCall
    /\ NoBindCall
    /\ UNCHANGED <<objects, stats, current_context, active_framebuffer, glo,
                   life, held, finalizer, prev_fbo, glDeleteCalls>>

\* HLContext.gc_mode setter
SetGcMode(value) ==
    /\ IF value \notin Modes
       THEN /\ raised' = "ValueError"
            /\ UNCHANGED gc_mode
       ELSE /\ raised' = "none"
            /\ gc_mode' = value
    /\ returned' = 0
    /\ last' = Call("gc_mode", 0, value)
    /\ NoStateCall
    /\ NoBindCall
    /\ UNCHANGED <<objects, stats, current_context, active_framebuffer, glo,
                   life, held, finalizer, prev_fbo, glDeleteCalls>>

\* HLContext.gc(): the while loop with its local obj.  Rebinding obj at the
\* next popleft, and leaving the function after the last one, releases the
\* object deleted before: it is destroyed unless something still refers to
\* it (its handle is 0 by then, so its __del__ cannot queue it again).
\* gc() testing the deque with "if" instead of "while".
RECURSIVE gc_loop_once(_, _, _)
gc_loop_once(s, obj, num_objects) ==
    IF Len(s.objects) = 0 \/ num_objects > 0
    THEN [st |-> Release(s, obj), ret |-> num_objects]
    ELSE LET x == Head(s.objects)
             s1 == [s EXCEPT !.objects = Tail(@)]
         IN gc_loop_once(delete(s1, x), x, num_objects + 1)

RECURSIVE gc_loop(_, _, _)
gc_loop(s, obj, num_objects) ==
    IF Len(s.objects) = 0
    THEN [st |-> Release(s, obj), ret |-> num_objects]
    ELSE LET x == Head(s.objects)
             s1 == [s EXCEPT !.objects = Tail(@)]
             s2 == Release(s1, obj)
         IN gc_loop(delete(s2, x), x, num_objects + 1)

\* gc() that only collects while the mode is "context_gc".
gc_deferred_only(s) ==
    IF gc_mode = "context_gc"
    THEN gc_loop(s, 0, 0)
    ELSE [st |-> s, ret |-> 0]

gc(s) == gc_loop(s, 0, 0)

Gc ==
    /\ Install(gc(Cur).st)
    /\ returned' = gc(Cur).ret
    /\ raised' = "none"
    /\ last' = Call("gc", 0, "")
    /\ NoStateCall
    /\ UNCHANGED <<gc_mode, current_context>>

\* HLFramebuffer.delete() called by the owner of r.  Repeated calls on an
\* already zeroed handle are capped by MaxNullDeletes.
Delete(r) ==
    /\ held[r]
    /\ life[r] = "alive"
    /\ glo[r] > 0 \/ glDeleteCalls[0] < MaxNullDeletes
    /\ Install(delete(Cur, r))
    /\ raised' = "none"
    /\ returned' = 0
    /\ last' = Call("delete", r, "")
    /\ NoStateCall
    /\ UNCHANGED <<gc_mode, current_context>>

\* The native graphics context goes away (gl.current_context becomes None).
Teardown ==
    /\ current_context
    /\ current_context' = FALSE
    /\ raised' = "none"
    /\ returned' = 0
    /\ last' = Call("teardown", 0, "")
    /\ NoStateCall
    /\ NoBindCall
    /\ UNCHANGED <<gc_mode, objects, stats, active_framebuffer, glo, life,
                   held, finalizer, prev_fbo, glDeleteCalls>>

\* HLFramebuffer._use(force): the native bind, skipped when this framebuffer
\* is the active one and force is false.  The class of the default
\* framebuffer (0) is not part of the sources: of its use() only the
\* assignment to ctx.active_framebuffer is modelled.
_use(s, r, force) ==
    IF r = 0 \/ (s.active = r /\ ~force)
    THEN s
    ELSE [s EXCEPT !.binds = Append(@, s.glo[r])]

\* Reading ctx.active_framebuffer raises AttributeError: nothing has
\* assigned it yet.
NoActive(s) == s.active = Unset

\* HLFramebuffer.use(force): _use(force), then ctx.active_framebuffer =
\* self; the framebuffer that was active loses that reference.  When _use
\* raises (it reads ctx.active_framebuffer first) nothing is bound and
\* nothing assigned.
use(s, r, force) ==
    IF NoActive(s)
    THEN s
    ELSE Release([_use(s, r, force) EXCEPT !.active = r], s.active)

\* The framebuffers the caller can call methods on: those it created and
\* still holds, and the default framebuffer once it has been installed.
Callable(r) ==
    IF r = 0 THEN active_framebuffer # Unset
    ELSE held[r] /\ life[r] = "alive"

\* The application makes the default (window) framebuffer the active one,
\* which creating the window and its context does:
\* ctx.active_framebuffer = <default framebuffer>.
InstallDefault ==
    /\ active_framebuffer = Unset
    /\ Install([Cur EXCEPT !.active = 0])
    /\ raised' = "none"
    /\ returned' = 0
    /\ last' = Call("install_default", 0, "")
    /\ NoStateCall
    /\ UNCHANGED <<gc_mode, current_context>>

Use(r, force) ==
    /\ current_context
    /\ Callable(r)
    /\ Install(use(Cur, r, force))
    /\ raised' = IF NoActive(Cur) THEN "AttributeError" ELSE "none"
    /\ returned' = 0
    /\ last' = Call("use", r, IF force THEN "force" ELSE "")
    /\ NoStateCall
    /\ UNCHANGED <<gc_mode, current_context>>

\* self._prev_fbo of r is assigned: the open "with r:" blocks have lost the
\* framebuffer they recorded.
Reentered(ws, r) ==
    [i \in 1..Len(ws) |->
        IF ws[i].fb = r THEN [ws[i] EXCEPT !.reentered = TRUE] ELSE ws[i]]

\* HLFramebuffer.__enter__ / __exit__.  __enter__ raises on its first line
\* when ctx.active_framebuffer does not exist.
enter(s, r) ==
    IF NoActive(s)
    THEN s
    ELSE use(Release([s EXCEPT !.prev[r] = s.active, !.withs = Reentered(@, r)],
                     s.prev[r]), r, FALSE)

\* __exit__ binding the default framebuffer.
exit_to_default(s, r) == use(s, 0, FALSE)

exit(s, r) == use(s, s.prev[r], FALSE)

\* HLFramebuffer.read(): "with self:" around glReadPixels; when __enter__
\* raises, the block and __exit__ are skipped.
read(s, r) ==
    IF NoActive(s) THEN s ELSE exit(enter(s, r), r)

Read(r) ==
    /\ current_context
    /\ Callable(r)
    /\ Install(read(Cur, r))
    /\ raised' = IF NoActive(Cur) THEN "AttributeError" ELSE "none"
    /\ returned' = 0
    /\ last' = Call("read", r, "")
    /\ NoStateCall
    /\ UNCHANGED <<gc_mode, current_context>>

\* ------------------------------------------------- the cyclic collector
\* Framebuffers referred to from outside the framebuffers: by the caller,
\* ctx.active_framebuffer, ctx.objects or an open block.
Roots(s) == {r \in Res : Referenced([s EXCEPT !.prev = [q \in Res |-> 0]], r)}

\* R and what is reachable from R through _prev_fbo.
RECURSIVE Reach(_, _)
Reach(s, R) ==
    LET N == R \cup ({s.prev[q] : q \in R} \cap Res)
    IN IF N = R THEN R ELSE Reach(s, N)

\* CPython's collector keeps three generations.  A new object is in
\* generation 0; a run on generation k examines the objects of generations
\* 0..k and moves those that survive to generation k + 1 (a run on the
\* oldest generation moves them to the oldest generation).
OldestGeneration == 2
Generations == 0..OldestGeneration

Living(s) == {r \in Res : s.life[r] \in {"alive", "failed"}}

\* The framebuffers a run on generation k examines.
Young(s, k) == {r \in Living(s) : s.gen[r] <= k}

\* The members of Y nothing outside Y leads to: neither the program nor a
\* framebuffer of an older generation refers to them, directly or through
\* other members of Y.  Only reference cycles keep them alive.
Garbage(s, Y) == Y \ Reach(s, Roots(s) \cup (Living(s) \ Y))

\* Where a run on generation k finds the objects of generation g in the
\* list it scans: the list of generation k first, then the lists of the
\* younger generations appended to it, youngest first.
Position(g, k) == IF g = k THEN 0 ELSE g + 1

\* The orders in which a run on generation k may visit the garbage G: the
\* order of the scanned list.  Generation 0 holds its objects in the order
\* of their creation (an object __del__ has put back there is not part of
\* a cycle); the order within an older generation depends on how earlier
\* runs traversed the objects and is left open.
Orders(s, G, k) ==
    {q \in [1..Cardinality(G) -> G] :
        \A i, j \in 1..Cardinality(G) :
            i < j => /\ q[i] # q[j]
                     /\ Position(s.gen[q[i]], k) <= Position(s.gen[q[j]], k)
                     /\ (s.gen[q[i]] = 0 /\ s.gen[q[j]] = 0) => q[i] < q[j]}

\* The collector clears the weak references to the garbage and calls their
\* callbacks: the weakref.finalize registered in __init__ runs delete_glo
\* on the shared GLuint.
RECURSIVE callbacks(_, _)
callbacks(s, order) ==
    IF order = <<>> THEN s
    ELSE LET r == Head(order)
             s1 == IF s.finalizer[r]
                   THEN [delete_glo(s, s.glo[r]) EXCEPT !.finalizer[r] = FALSE]
                   ELSE s
         IN callbacks(s1, Tail(order))

\* Then it calls __del__ on each member of the garbage, in that order.
RECURSIVE finalizers(_, _)
finalizers(s, order) ==
    IF order = <<>> THEN s
    ELSE LET r == Head(order)
             s1 == IF gc_mode = "context_gc" /\ s.glo[r] > 0
                   THEN [s EXCEPT !.objects = Append(@, r)]
                   ELSE s
         IN finalizers(s1, Tail(order))

\* What is still garbage after that (nothing in ctx.objects refers to it)
\* is destroyed.
destroy(s, D) ==
    [s EXCEPT !.life = [r \in Res |->
                          IF r \notin D THEN @[r]
                          ELSE IF @[r] = "failed" THEN "aborted" ELSE "dead"],
              !.prev = [r \in Res |-> IF r \in D THEN 0 ELSE @[r]],
              !.gen = [r \in Res |-> IF r \in D THEN 0 ELSE @[r]],
              !.finalizer = [r \in Res |-> IF r \in D THEN FALSE ELSE @[r]]]

\* The examined framebuffers that survived the run move to the generation
\* after k; a run on the oldest generation gathers them there.
promote(s, Y, k) ==
    [s EXCEPT !.gen = [r \in Res |->
                         IF r \in Y /\ r \in Living(s)
                         THEN IF k < OldestGeneration THEN k + 1
                              ELSE OldestGeneration
                         ELSE @[r]]]

\* One run of CPython's cyclic garbage collector on generation k, visiting
\* the garbage in the given order.
collect(s, k, order) ==
    LET G == Range(order)
        s1 == finalizers(callbacks(s, order), order)
    IN promote(destroy(s1, Garbage(s1, G)), Young(s, k), k)

\* The collector runs on generation k, at a moment the program does not
\* choose (or in gc.collect(k)).
Collect(k) ==
    /\ Young(Cur, k) # {}
    /\ \E order \in Orders(Cur, Garbage(Cur, Young(Cur, k)), k) :
           Install(collect(Cur, k, order))
    /\ raised' = "none"
    /\ returned' = 0
    /\ last' = Call("collect", k, "")
    /\ NoStateCall
    /\ UNCHANGED <<gc_mode, current_context>>

\* Creation, finalisation, collection and deletion of framebuffers.
Next ==
    \/ \E outcome \in Outcomes : Create(outcome)
    \/ \E r \in Res : Handled(r)
    \/ \E r \in Res : Unreachable(r)
    \/ \E value \in ModeInputs : SetGcMode(value)
    \/ Gc
    \/ \E r \in Res : Delete(r)
    \/ Teardown

Spec == Init /\ [][Next]_vars

\* The same with binding: framebuffers now refer to one another through
\* ctx.active_framebuffer and _prev_fbo.
NextRefs ==
    \/ Next
    \/ InstallDefault
    \/ \E r \in Ref : Use(r, FALSE)
    \/ \E r \in Res : Read(r)
    \/ \E k \in Generations : Collect(k)

SpecRefs == Init /\ [][NextRefs]_vars

\* HLFramebuffer.delete() called by the owner of r at most once: the handle
\* of a framebuffer its owner still holds is non-zero until delete() ran.
DeleteOnce(r) ==
    /\ glo[r] > 0
    /\ Delete(r)

\* Construction, finalisation, mode changes, collection and at most one
\* explicit delete() per framebuffer, with the native context live.
NextStats ==
    \/ \E outcome \in Outcomes : Create(outcome)
    \/ \E r \in Res : Handled(r)
    \/ \E r \in Res : Unreachable(r)
    \/ \E value \in ModeInputs : SetGcMode(value)
    \/ Gc
    \/ \E r \in Res : DeleteOnce(r)

SpecStats == Init /\ [][NextStats]_vars

\* Framebuffers whose handle glGenFramebuffers handed out and no
\* glDeleteFramebuffers call has released yet.
Allocated == {r \in Res : life[r] # "none" /\ glDeleteCalls[r] = 0}

\* ------------------------------------------------------ capability flags
\* The flag tuples passed to enable / disable / enable_only / enabled /
\* enabled_only, as sets (order and repetition change nothing): no flag,
\* two known flags, and the other two with one enable_only() ignores.
FlagArgs ==
    {{}, {"BLEND", "DEPTH_TEST"},
     {"CULL_FACE", "PROGRAM_POINT_SIZE", "SCISSOR_TEST"}}

\* The flag state a call reads and writes.  A with-block is recorded as
\*   kind   "enabled" | "enabled_only"
\*   alias  its old_flags is still the very set object self._flags refers to
\*   old    the content of old_flags once it is a set of its own
\*   entry  the content of self._flags when the block was entered
FlagCur ==
    [flags |-> flags, dev |-> glEnabled, scopes |-> scopes, calls |-> {}]

FlagInstall(c) ==
    /\ flags' = c.flags
    /\ glEnabled' = c.dev
    /\ scopes' = c.scopes
    /\ glCapCalls' = c.calls

\* A call that touches nothing of the framebuffer lifetime state.
NoLifetimeCall ==
    /\ returned' = 0
    /\ NoBindCall
    /\ UNCHANGED <<gc_mode, objects, stats, current_context, active_framebuffer,
                   glo, life, held, finalizer, prev_fbo, glDeleteCalls>>

\* enable() that updates the cache only.
enable_cache_only(c, F) ==
    [c EXCEPT !.flags = @ \cup F]

\* HLContext.enable(*flags): self._flags.update(flags) changes the set
\* object in place.
enable(c, F) ==
    [c EXCEPT !.flags = @ \cup F,
              !.dev = @ \cup F,
              !.calls = @ \cup {<<"glEnable", f>> : f \in F}]

\* HLContext.disable(*args): self._flags -= set(args), in place.
disable(c, F) ==
    [c EXCEPT !.flags = @ \ F,
              !.dev = @ \ F,
              !.calls = @ \cup {<<"glDisable", f>> : f \in F}]

\* self._flags is bound to a new set object: the old_flags of the open
\* blocks that referred to the old object keep its content from now on.
Freeze(sc, content) ==
    [i \in 1..Len(sc) |->
        IF sc[i].alias THEN [sc[i] EXCEPT !.alias = FALSE, !.old = content]
        ELSE sc[i]]

\* enable_only() that only ever adds to the cached set.
enable_only_additive(c, F) ==
    [c EXCEPT !.flags = @ \cup F,
              !.dev = (@ \ Known) \cup (F \cap Known),
              !.calls = @ \cup {<<IF f \in F THEN "glEnable" ELSE "glDisable", f>> :
                                   f \in Known}]

\* HLContext.enable_only(*args)
enable_only(c, F) ==
    [c EXCEPT !.flags = F,
              !.scopes = Freeze(@, c.flags),
              !.dev = (@ \ Known) \cup (F \cap Known),
              !.calls = @ \cup {<<IF f \in F THEN "glEnable" ELSE "glDisable", f>> :
                                   f \in Known}]

Block(kind, c) ==
    [kind |-> kind, alias |-> TRUE, old |-> {}, entry |-> c.flags]

\* HLContext.enabled(*flags) up to its yield
enabled(c, F) ==
    enable([c EXCEPT !.scopes = Append(@, Block("enabled", c))], F)

\* HLContext.enabled_only(*flags) up to its yield
enabled_only(c, F) ==
    enable_only([c EXCEPT !.scopes = Append(@, Block("enabled_only", c))], F)

\* The finally clause of the innermost open block, always restoring with
\* enable().
finally_enable(c) ==
    LET top == c.scopes[Len(c.scopes)]
        old_flags == IF top.alias THEN c.flags ELSE top.old
    IN enable([c EXCEPT !.scopes = SubSeq(@, 1, Len(@) - 1)], old_flags)

\* The finally clause of the innermost open block: enable(*old_flags) for
\* enabled(), enable_only(*old_flags) for enabled_only().
finally(c) ==
    LET top == c.scopes[Len(c.scopes)]
        old_flags == IF top.alias THEN c.flags ELSE top.old
        c1 == [c EXCEPT !.scopes = SubSeq(@, 1, Len(@) - 1)]
    IN IF top.kind = "enabled"
       THEN enable(c1, old_flags)
       ELSE enable_only(c1, old_flags)

Enable(F) ==
    /\ FlagInstall(enable(FlagCur, F))
    /\ args' = F
    /\ raised' = "none"
    /\ last' = Call("enable", 0, "")
    /\ UNCHANGED <<point_size, glPointSize>>
    /\ NoLifetimeCall

Disable(F) ==
    /\ FlagInstall(disable(FlagCur, F))
    /\ args' = F
    /\ raised' = "none"
    /\ last' = Call("disable", 0, "")
    /\ UNCHANGED <<point_size, glPointSize>>
    /\ NoLifetimeCall

EnableOnly(F) ==
    /\ FlagInstall(enable_only(FlagCur, F))
    /\ args' = F
    /\ raised' = "none"
    /\ last' = Call("enable_only", 0, "")
    /\ UNCHANGED <<point_size, glPointSize>>
    /\ NoLifetimeCall

\* "with ctx.enabled(*F):" is entered.
EnterEnabled(F) ==
    /\ Len(scopes) < MaxScopes
    /\ FlagInstall(enabled(FlagCur, F))
    /\ args' = F
    /\ raised' = "none"
    /\ last' = Call("enabled", 0, "")
    /\ UNCHANGED <<point_size, glPointSize>>
    /\ NoLifetimeCall

\* "with ctx.enabled_only(*F):" is entered.
EnterEnabledOnly(F) ==
    /\ Len(scopes) < MaxScopes
    /\ FlagInstall(enabled_only(FlagCur, F))
    /\ args' = F
    /\ raised' = "none"
    /\ last' = Call("enabled_only", 0, "")
    /\ UNCHANGED <<point_size, glPointSize>>
    /\ NoLifetimeCall

\* The innermost with-block is left, by reaching its end ("return") or by
\* an exception raised in its body ("raise"), which propagates.
ExitBlock(how) ==
    /\ scopes # <<>>
    /\ FlagInstall(finally(FlagCur))
    /\ args' = {}
    /\ raised' = IF how = "raise" THEN "Exception" ELSE "none"
    /\ last' = Call("exit_" \o scopes[Len(scopes)].kind, 0, how)
    /\ UNCHANGED <<point_size, glPointSize>>
    /\ NoLifetimeCall

\* The capability flags of a context: plain calls and with-blocks.
NextFlags ==
    \/ \E F \in FlagArgs : Enable(F)
    \/ \E F \in FlagArgs : Disable(F)
    \/ \E F \in FlagArgs : EnableOnly(F)
    \/ \E F \in FlagArgs : EnterEnabled(F)
    \/ \E F \in FlagArgs : EnterEnabledOnly(F)
    \/ \E how \in {"return", "raise"} : ExitBlock(how)

SpecFlags == Init /\ [][NextFlags]_vars

\* ------------------------------------------------------------ point size
\* Values assigned to ctx.point_size (1 is the default 1.0).
PointSizes == {1, 2, 3}

\* The setter sending the new value to the device.
set_point_size_new(cached, value) ==
    [glPointSize |-> value, point_size |-> value]

\* HLContext.point_size setter: gl.glPointSize(self._point_size), then
\* self._point_size = value.
set_point_size(cached, value) ==
    [glPointSize |-> cached, point_size |-> value]

SetPointSize(value) ==
    /\ glPointSize' = set_point_size(point_size, value).glPointSize
    /\ point_size' = set_point_size(point_size, value).point_size
    /\ glCapCalls' = {}
    /\ args' = {}
    /\ raised' = "none"
    /\ last' = Call("point_size", value, "")
    /\ UNCHANGED <<flags, glEnabled, scopes>>
    /\ NoLifetimeCall

\* The plain state setters of a context.
NextState ==
    \/ \E F \in FlagArgs : Enable(F)
    \/ \E F \in FlagArgs : Disable(F)
    \/ \E F \in FlagArgs : EnableOnly(F)
    \/ \E value \in PointSizes : SetPointSize(value)

SpecState == Init /\ [][NextState]_vars

\* ----------------------------------------------------- scoped activation
\* HLFramebuffer.activate() up to its yield: prev_fbo = the active
\* framebuffer, self.use().  Reading ctx.active_framebuffer for prev_fbo
\* raises when it does not exist: the block is not entered.
activate(s, r) ==
    IF NoActive(s)
    THEN s
    ELSE use([s EXCEPT !.act = Append(@, [fb |-> r, prev |-> s.active])],
             r, FALSE)

\* The finally clause of the innermost open activate() block:
\* prev_fbo.use(); then the block's references to self and prev_fbo go.
activate_finally(s) ==
    LET top == s.act[Len(s.act)]
        s1 == use(s, top.prev, FALSE)
        s2 == [s1 EXCEPT !.act = SubSeq(@, 1, Len(@) - 1)]
    IN Release(Release(s2, top.fb), top.prev)

\* HLFramebuffer.clear(): "with self.activate():" around glClear
clear(s, r) ==
    IF NoActive(s) THEN s ELSE activate_finally(activate(s, r))

\* "with fbo.activate():" is entered.
Activate(r) ==
    /\ current_context
    /\ Callable(r)
    /\ Len(activations) < MaxActivations
    /\ Install(activate(Cur, r))
    /\ raised' = IF NoActive(Cur) THEN "AttributeError" ELSE "none"
    /\ returned' = 0
    /\ last' = Call("activate", r, "")
    /\ NoStateCall
    /\ UNCHANGED <<gc_mode, current_context>>

\* The innermost activate() block is left, by reaching its end ("return")
\* or by an exception raised in its body ("raise"), which propagates.
ExitActivate(how) ==
    /\ current_context
    /\ activations # <<>>
    /\ Install(activate_finally(Cur))
    /\ raised' = IF how = "raise" THEN "Exception" ELSE "none"
    /\ returned' = 0
    /\ last' = Call("exit_activate", activations[Len(activations)].fb, how)
    /\ NoStateCall
    /\ UNCHANGED <<gc_mode, current_context>>

Clear(r) ==
    /\ current_context
    /\ Callable(r)
    /\ Install(clear(Cur, r))
    /\ raised' = IF NoActive(Cur) THEN "AttributeError" ELSE "none"
    /\ returned' = 0
    /\ last' = Call("clear", r, "")
    /\ NoStateCall
    /\ UNCHANGED <<gc_mode, current_context>>

\* Binding: framebuffers are created, bound with use(), activated in
\* nested with-blocks and cleared; their owner gives some up.
NextBind ==
    \/ Create("ok")
    \/ InstallDefault
    \/ \E r \in Ref, force \in BOOLEAN : Use(r, force)
    \/ \E r \in Res : Activate(r)
    \/ \E how \in {"return", "raise"} : ExitActivate(how)
    \/ \E r \in Res : Clear(r)
    \/ \E r \in Res : Unreachable(r)

SpecBind == Init /\ [][NextBind]_vars

\* ------------------------------------------------------ plain with-block
\* "with fbo:" is entered: __enter__, the block holds fbo until it is left.
with_enter(s, r) ==
    IF NoActive(s)
    THEN s
    ELSE [enter(s, r) EXCEPT
            !.withs = Append(@, [fb |-> r, entry |-> s.active,
                                 reentered |-> FALSE])]

\* The innermost "with fbo:" block is left: __exit__, then the block's
\* reference to fbo goes.
with_exit(s) ==
    LET top == s.withs[Len(s.withs)]
        s1 == exit(s, top.fb)
    IN Release([s1 EXCEPT !.withs = SubSeq(@, 1, Len(@) - 1)], top.fb)

EnterWith(r) ==
    /\ current_context
    /\ Callable(r)
    /\ Len(withs) < MaxWith
    /\ Install(with_enter(Cur, r))
    /\ raised' = IF NoActive(Cur) THEN "AttributeError" ELSE "none"
    /\ returned' = 0
    /\ last' = Call("with", r, "")
    /\ NoStateCall
    /\ UNCHANGED <<gc_mode, current_context>>

\* The innermost "with fbo:" block is left, by reaching its end ("return")
\* or by an exception raised in its body ("raise"), which propagates
\* (__exit__ returns None).
ExitWith(how) ==
    /\ current_context
    /\ withs # <<>>
    /\ Install(with_exit(Cur))
    /\ raised' = IF how = "raise" THEN "Exception" ELSE "none"
    /\ returned' = 0
    /\ last' = Call("exit_with", withs[Len(withs)].fb, how)
    /\ NoStateCall
    /\ UNCHANGED <<gc_mode, current_context>>

\* Binding with the class's own context manager: framebuffers are created,
\* entered in with-blocks and read, and the default framebuffer is bound
\* again in between.
NextWith ==
    \/ Create("ok")
    \/ InstallDefault
    \/ Use(0, FALSE)
    \/ \E r \in Res : EnterWith(r)
    \/ \E how \in {"return", "raise"} : ExitWith(how)
    \/ \E r \in Res : Read(r)

SpecWith == Init /\ [][NextWith]_vars

\* ------------------------------------------------------------ properties

RECURSIVE SumTo(_, _)
SumTo(f, n) == IF n < 0 THEN 0 ELSE f[n] + SumTo(f, n - 1)

\* Number of glDeleteFramebuffers calls issued so far.
NativeDeletes(calls) == SumTo(calls, MaxRes)

\* C1: every native framebuffer handle is freed exactly once: the native
\* delete is issued at most once per created handle, and once the resource
\* has been destroyed and gc() has run with a live native context it has
\* been issued exactly once.
C1_FreedExactlyOnce ==
    \A r \in Res :
        /\ glDeleteCalls[r] <= 1
        /\ (last.op = "gc" /\ current_context /\ life[r] = "dead")
               => glDeleteCalls[r] = 1

\* C2: a second delete() on the same framebuffer (handle already zero)
\* issues no native delete call and leaves the statistics unchanged.
C2_DeleteIdempotent ==
    [][(last'.op = "delete" /\ glo[last'.res] = 0)
          => (glDeleteCalls' = glDeleteCalls /\ stats' = stats)]_vars

\* The pending deque holds exactly N framebuffers that were created under
\* deferred mode and became unreachable under it, and the native context is
\* live.
C3_Scenario ==
    /\ gc_mode = "context_gc"
    /\ current_context
    /\ \A i \in 1..Len(objects) :
          /\ life[objects[i]] = "alive"
          /\ ~finalizer[objects[i]]
          /\ prev_fbo[objects[i]] = 0

\* C3: under deferred mode, after N resources were created and all became
\* unreachable, gc() returns exactly N, leaves the pending deque empty,
\* raises the freed counter by N, and the live count (created - freed) is
\* back at its value before the N creations.
C3_GcReturnsN ==
    [][(last'.op = "gc" /\ C3_Scenario)
          => LET N == Len(objects)
             IN /\ returned' = N
                /\ objects' = <<>>
                /\ stats'[2] = stats[2] + N
                /\ stats'[1] - stats'[2] = (stats[1] - N) - stats[2]]_vars

C3_Witness ==
    /\ last.op = "gc"
    /\ gc_mode = "context_gc"
    /\ current_context
    /\ returned = MaxRes
    /\ objects = <<>>
    /\ stats = <<MaxRes, MaxRes>>
    /\ \A r \in Res : life[r] = "dead" /\ glDeleteCalls[r] = 1

\* C4: whenever gc() returns the pending deque is empty (what is appended
\* while gc() runs is deleted within the same call).
C4_GcLeavesQueueEmpty ==
    last.op = "gc" => objects = <<>>

\* C5: the value returned by gc() equals the number of native delete calls
\* issued, and of freed-counter increments made, during that call.
C5_GcCountsDeletes ==
    [][last'.op = "gc"
          => /\ returned' = NativeDeletes(glDeleteCalls') - NativeDeletes(glDeleteCalls)
             /\ returned' = stats'[2] - stats[2]]_vars

\* C6: a resource that becomes unreachable under deferred mode is appended
\* to the pending deque, and neither is its handle freed nor do the
\* statistics change until a later gc(); under "auto" the native delete
\* runs at that moment and the resource is not queued.
C6_FinalizerPolicy ==
    [][/\ (last'.op = "unreachable" /\ glo[last'.res] > 0 /\ current_context)
            => LET r == last'.res
               IN IF gc_mode = "context_gc"
                  THEN /\ objects' = Append(objects, r)
                       /\ glDeleteCalls' = glDeleteCalls
                       /\ stats' = stats
                  ELSE /\ glDeleteCalls'[glo[r]] = glDeleteCalls[glo[r]] + 1
                       /\ objects' = objects
       /\ last'.op # "gc"
            => \A i \in 1..Len(objects) :
                  /\ i <= Len(objects') /\ objects'[i] = objects[i]
                  /\ glDeleteCalls'[objects[i]] = glDeleteCalls[objects[i]]]_vars

\* C7: a resource that becomes unreachable after the mode was set to m is
\* handled by policy m, whatever the mode was when it was created (that is,
\* whether or not a finalizer was registered for it).
C7_PolicyOfCurrentMode ==
    [][\A r \in Res : \A registered \in BOOLEAN :
          (/\ last'.op = "unreachable" /\ last'.res = r
           /\ finalizer[r] = registered
           /\ glo[r] > 0 /\ current_context)
             => /\ gc_mode = "auto"
                     => /\ glDeleteCalls'[r] = glDeleteCalls[r] + 1
                        /\ r \notin Range(objects')
                /\ gc_mode = "context_gc"
                     => /\ glDeleteCalls'[r] = glDeleteCalls[r]
                        /\ r \in Range(objects')]_vars

\* C8: the gc_mode setter rejects every string other than "auto" and
\* "context_gc" with a ValueError, and after the rejected call gc_mode and
\* the pending deque are what they were.
C8_SetterRejects ==
    [][(last'.op = "gc_mode" /\ last'.val \notin Modes)
          => /\ raised' = "ValueError"
             /\ gc_mode' = gc_mode
             /\ objects' = objects]_vars

C8_Witness ==
    /\ last = Call("gc_mode", 0, "deferred")
    /\ raised = "ValueError"
    /\ gc_mode = "auto"
    /\ objects # <<>>

\* C9: the gc_mode setter leaves the pending deque (contents and order)
\* unchanged and issues no native delete, and every entry queued before the
\* change is freed by the next gc() run with a live native context, also
\* when the mode is then "auto".
C9_QueuedSurviveModeChange ==
    [][/\ last'.op = "gc_mode"
            => /\ objects' = objects
               /\ glDeleteCalls' = glDeleteCalls
               /\ stats' = stats
       /\ (last'.op = "gc" /\ current_context)
            => \A i \in 1..Len(objects) :
                  LET r == objects[i]
                  IN /\ glo[r] > 0
                     /\ glDeleteCalls'[glo[r]] = glDeleteCalls[glo[r]] + 1
                     /\ r \notin Range(objects')]_vars

C9_Witness ==
    /\ last.op = "gc"
    /\ gc_mode = "auto"
    /\ current_context
    /\ returned = MaxRes
    /\ objects = <<>>
    /\ \A r \in Res : life[r] = "dead" /\ glDeleteCalls[r] = 1

\* C10: without a live native context delete(), the finalizer and gc()
\* issue no native delete call, raise nothing and leave the statistics
\* unchanged.
C10_NoOpAfterTeardown ==
    [][(~current_context /\ last'.op \in {"delete", "unreachable", "gc"})
          => /\ glDeleteCalls' = glDeleteCalls
             /\ stats' = stats
             /\ raised' = "none"]_vars

C10_Witness ==
    /\ ~current_context
    /\ last.op = "gc"
    /\ returned > 0
    /\ \E r \in Res : /\ life[r] = "dead" /\ glDeleteCalls[r] = 0
                      /\ held[r] = FALSE
    /\ \E r \in Res : /\ life[r] = "alive" /\ held[r] /\ glo[r] = 0
                      /\ glDeleteCalls[r] = 0
\* C11: with construction (successful or failing), finalisation, mode
\* changes, gc() and at most one explicit delete() per framebuffer, the
\* framebuffer statistics keep freed <= created, neither counter ever
\* decreases, and created - freed is the number of framebuffers whose
\* native handle is still allocated.
C11_StatsLiveCount ==
    [][/\ stats'[1] >= stats[1]
       /\ stats'[2] >= stats[2]
       /\ stats'[2] <= stats'[1]
       /\ stats'[1] - stats'[2] = Cardinality(Allocated')]_vars
\* C12: when a "with ctx.enabled(F)" block is left, normally or by an
\* exception, the cached flag set is exactly the set it was when the block
\* was entered.
C12_EnabledRestores ==
    [][last'.op = "exit_enabled"
          => flags' = scopes[Len(scopes)].entry]_vars

\* C13: when a "with ctx.enabled_only(F)" block is left, normally or by an
\* exception, whatever its body did (enable, disable, enable_only, nested
\* blocks), the cached flag set is the set S captured at entry and each of
\* the four known capabilities is enabled on the device exactly when it is
\* in S.
C13_EnabledOnlyRestores ==
    [][last'.op = "exit_enabled_only"
          => LET S == scopes[Len(scopes)].entry
             IN /\ flags' = S
                /\ glEnabled' \cap Known = S \cap Known
                /\ scopes' = SubSeq(scopes, 1, Len(scopes) - 1)]_vars

C13_Witness ==
    /\ last = Call("exit_enabled_only", 0, "raise")
    /\ raised = "Exception"
    /\ Len(scopes) = 1
    /\ scopes[1].kind = "enabled_only"
    /\ scopes[1].entry = {"CULL_FACE", "PROGRAM_POINT_SIZE", "SCISSOR_TEST"}
    /\ flags = {"BLEND", "DEPTH_TEST"}
    /\ glEnabled \cap Known = {"BLEND", "DEPTH_TEST"}

\* C14: enable_only(X) followed by enable_only(Y) leaves the cached set
\* equal to Y and, of the four known capabilities, exactly those in Y
\* enabled on the device, whatever X was; a flag outside the known list
\* gets no glEnable / glDisable call and keeps its device state.
C14_EnableOnlyTwice ==
    [][(last.op = "enable_only" /\ last'.op = "enable_only")
          => LET Y == args'
             IN /\ flags' = Y
                /\ glEnabled' \cap Known = Y \cap Known
                /\ {c[2] : c \in glCapCalls'} = Known
                /\ glEnabled' \ Known = glEnabled \ Known]_vars

C14_Witness ==
    /\ last.op = "enable_only"
    /\ args = {"CULL_FACE", "PROGRAM_POINT_SIZE", "SCISSOR_TEST"}
    /\ flags = args
    /\ glEnabled = {"CULL_FACE", "PROGRAM_POINT_SIZE"}
    /\ <<"glDisable", "BLEND">> \in glCapCalls
    /\ scopes # <<>>

\* C20: in every state reached by enable, disable, enable_only and the
\* enabled / enabled_only blocks, each of the four known capabilities is
\* enabled on the device exactly when it is in the cached flag set.
C20_CacheMirrorsDevice ==
    glEnabled \cap Known = flags \cap Known

C20_Witness ==
    /\ last.op = "disable"
    /\ args = {"BLEND", "DEPTH_TEST"}
    /\ Len(scopes) = MaxScopes
    /\ flags = {"CULL_FACE", "PROGRAM_POINT_SIZE", "SCISSOR_TEST"}
    /\ glEnabled = {"CULL_FACE", "PROGRAM_POINT_SIZE"}
\* C19: every assignment to point_size sends the previously cached value to
\* the device and then stores the new one: after assignments v1..vk the
\* getter returns vk and the device was last sent v(k-1), v0 being the
\* default 1.0, so the first assignment sends the default.
C19_PointSizeLagsByOne ==
    [][last'.op = "point_size"
          => /\ point_size' = last'.res
             /\ glPointSize' = point_size
             /\ glPointSize = 0 => glPointSize' = 1]_vars

C19_Witness ==
    /\ last = Call("point_size", 3, "")
    /\ point_size = 3
    /\ glPointSize = 2
\* C15: a construction without color attachment raises ValueError, and it
\* generates no native handle, issues no native call, and leaves the
\* statistics, the pending deque and every framebuffer as they were, in
\* either gc mode.
C15_NoColorAttachment ==
    [][(last'.op = "create" /\ last'.val = "no_color")
          => /\ raised' = "ValueError"
             /\ glGenCalls' = <<>> /\ glBindCalls' = <<>>
             /\ Allocated' = Allocated
             /\ glDeleteCalls' = glDeleteCalls
             /\ stats' = stats
             /\ objects' = objects
             /\ glo' = glo /\ life' = life /\ held' = held]_vars

C15_Witness ==
    /\ last.op = "create" /\ last.val = "no_color"
    /\ raised = "ValueError"
    /\ gc_mode = "context_gc"
    /\ last.res = MaxRes
    /\ life[MaxRes] = "none"
    /\ objects # <<>>
    /\ stats[1] > 0

\* C16: a construction with attachments of differing sizes raises
\* ValueError before any native binding: when it raises, no framebuffer
\* handle has been generated and none has been bound for the object.
C16_SizeMismatchBeforeBinding ==
    [][(last'.op = "create" /\ last'.val = "size_mismatch")
          => /\ raised' = "ValueError"
             /\ glGenCalls' = <<>>
             /\ glBindCalls' = <<>>]_vars
\* C17: activate() records the framebuffer active at entry and makes self
\* the active one; when the block is left, normally or by an exception, the
\* active framebuffer is the one recorded by that block, so that nested
\* activations (of other framebuffers or of the same one) each restore the
\* immediately prior framebuffer; clear(), which activates internally,
\* leaves the active framebuffer and the open blocks as they were.
C17_ActivateRestores ==
    [][/\ last'.op = "activate"
            => /\ active_framebuffer' = last'.res
               /\ activations' = Append(activations,
                                        [fb |-> last'.res,
                                         prev |-> active_framebuffer])
       /\ last'.op = "exit_activate"
            => /\ active_framebuffer' = activations[Len(activations)].prev
               /\ activations' = SubSeq(activations, 1, Len(activations) - 1)
       /\ last'.op = "clear"
            => /\ active_framebuffer' = active_framebuffer
               /\ activations' = activations]_vars

\* C18: use(force) leaves ctx.active_framebuffer equal to the framebuffer
\* it was called on, and it issues the native bind call, once and with that
\* framebuffer's handle, exactly when force is true or the framebuffer was
\* not the active one at the call.
C18_UseBindsUnlessActive ==
    [][(last'.op = "use" /\ last'.res \in Res)
          => LET r == last'.res
             IN /\ active_framebuffer' = r
                /\ glBindCalls' =
                      IF last'.val = "force" \/ active_framebuffer # r
                      THEN <<glo[r]>>
                      ELSE <<>>]_vars

\* C21: read() leaves the active framebuffer what it was before the call,
\* and when a "with fbo:" block is left the active framebuffer is the one
\* that was active when the block was entered, also when the body called
\* fbo.read() or entered "with fbo:" again.
C21_WithRestoresActive ==
    [][/\ last'.op = "read"
            => active_framebuffer' = active_framebuffer
       /\ last'.op = "exit_with"
            => active_framebuffer' = withs[Len(withs)].entry]_vars

\* C21 as amended: read() leaves the active framebuffer what it was before
\* the call; when a "with fbo:" block is left, normally or by an exception,
\* the active framebuffer is the one that was active when the block was
\* entered provided the body neither called fbo.read() nor entered
\* "with fbo:" again on that framebuffer, and otherwise it is the one that
\* was active at the last such call or entry (fbo._prev_fbo).
C21_WithRestoresUnlessReentered ==
    [][/\ last'.op = "read"
            => active_framebuffer' = active_framebuffer
       /\ last'.op = "exit_with"
            => LET top == withs[Len(withs)]
               IN /\ ~top.reentered => active_framebuffer' = top.entry
                  /\ top.reentered => active_framebuffer' = prev_fbo[top.fb]
                  /\ withs' = SubSeq(withs, 1, Len(withs) - 1)]_vars

C21_Witness ==
    /\ last = Call("exit_with", 2, "raise")
    /\ raised = "Exception"
    /\ Len(withs) = 1
    /\ withs[1] = [fb |-> 1, entry |-> 0, reentered |-> FALSE]
    /\ active_framebuffer = 1
    /\ prev_fbo[2] = 1
====
